---------------------------- MODULE Spec2Model ----------------------------
(***************************************************************************)
(* A model of the EMX python client (src/emx): the request signer of        *)
(* utils.py, the REST wrapper of rest_api.py and the WebSocket wrapper of   *)
(* ws_api.py.                                                               *)
(*                                                                          *)
(* Representation.  A python str is a TLA+ string; concatenation is \o and  *)
(* str(int) is ToString.  The api secret, whose characters b64decode        *)
(* inspects one by one, is a sequence of one-character strings.  A bytes     *)
(* value produced by b64decode is a sequence of integers 0..255.  SHA-256   *)
(* is not computed: an HMAC digest is the term [alg, key, msg], so that two *)
(* digests are equal exactly when key and message are equal.  The text that *)
(* base64 encoding makes of a digest is the term [b64, eol]: the encoded    *)
(* digest followed by the line terminator eol.                              *)
(*                                                                          *)
(* The interpreter is one that still has base64.encodestring (CPython       *)
(* before 3.9).                                                              *)
(***************************************************************************)
EXTENDS Naturals, Sequences, FiniteSets, TLC

(***************************************************************************)
(* Bounds of the model.                                                     *)
(***************************************************************************)
\* Longest api secret, in characters.
MaxSecretLen == 4
\* Last value of the wall clock, in seconds.
MaxTime == 1
\* Most frames waiting in the WebSocket connection.
MaxInbox == 2

(***************************************************************************)
(* Python values that are passed as a request body: None, a str, or a dict  *)
(* (an ordered list of key/value items whose values are str or None).       *)
(***************************************************************************)
PyNone == [t |-> "None", s |-> "", items |-> <<>>]

PyStr(s) == [t |-> "str", s |-> s, items |-> <<>>]

PyDict(items) == [t |-> "dict", s |-> "", items |-> items]

\* Python truth value of a body: None, "" and {} are false.
Truthy(v) ==
    CASE v.t = "None" -> FALSE
      [] v.t = "str"  -> v.s # ""
      [] v.t = "dict" -> v.items # <<>>

\* json.dumps of a str or None (no character of the model needs escaping).
JsonScalar(v) ==
    IF v.t = "None" THEN "null" ELSE "\"" \o v.s \o "\""

RECURSIVE JsonItems(_, _)
\* The items of a dict from the i-th on, joined with the item separator ','
\* and the key separator ':'.
JsonItems(items, i) ==
    IF i > Len(items) THEN ""
    ELSE "\"" \o items[i][1] \o "\":" \o JsonScalar(items[i][2])
         \o (IF i < Len(items) THEN "," ELSE "")
         \o JsonItems(items, i + 1)

\* utils.body_to_string: json.dumps(body, separators=(',', ':')).
body_to_string(body) ==
    IF body.t = "dict" THEN "{" \o JsonItems(body.items, 1) \o "}"
    ELSE JsonScalar(body)

(***************************************************************************)
(* base64.b64decode(s) with its default validate=False.                     *)
(***************************************************************************)
B64Alphabet ==
    << "A","B","C","D","E","F","G","H","I","J","K","L","M","N","O","P",
       "Q","R","S","T","U","V","W","X","Y","Z","a","b","c","d","e","f",
       "g","h","i","j","k","l","m","n","o","p","q","r","s","t","u","v",
       "w","x","y","z","0","1","2","3","4","5","6","7","8","9","+","/" >>

B64Chars == {B64Alphabet[i] : i \in 1..Len(B64Alphabet)}

\* binascii's table_a2b_base64: the 6-bit value of each alphabet character.
table_a2b_base64 ==
    [ch \in B64Chars |-> (CHOOSE i \in 1..Len(B64Alphabet) : B64Alphabet[i] = ch) - 1]

IsB64Char(ch) == ch \in B64Chars

B64Value(ch) == table_a2b_base64[ch]

\* The character of the model that is not ASCII.
NonAscii == "\\u00e9"

A2bStart == [quad_pos |-> 0, leftchar |-> 0, pads |-> 0, out |-> <<>>, done |-> FALSE]

\* One round of the decoding loop of binascii.a2b_base64 (not strict).
A2bStep(st, ch) ==
    IF st.done THEN st
    ELSE IF ch = "=" THEN
        IF st.quad_pos >= 2
        THEN IF st.quad_pos + st.pads + 1 >= 4
             THEN [st EXCEPT !.pads = @ + 1, !.done = TRUE]
             ELSE [st EXCEPT !.pads = @ + 1]
        ELSE st
    ELSE IF ~IsB64Char(ch) THEN st
    ELSE LET v == B64Value(ch) IN
        CASE st.quad_pos = 0 ->
               [st EXCEPT !.pads = 0, !.quad_pos = 1, !.leftchar = v]
          [] st.quad_pos = 1 ->
               [st EXCEPT !.pads = 0, !.quad_pos = 2,
                          !.out = Append(@, st.leftchar * 4 + v \div 16),
                          !.leftchar = v % 16]
          [] st.quad_pos = 2 ->
               [st EXCEPT !.pads = 0, !.quad_pos = 3,
                          !.out = Append(@, st.leftchar * 16 + v \div 4),
                          !.leftchar = v % 4]
          [] st.quad_pos = 3 ->
               [st EXCEPT !.pads = 0, !.quad_pos = 0,
                          !.out = Append(@, st.leftchar * 64 + v),
                          !.leftchar = 0]

RECURSIVE A2bLoop(_, _, _)
A2bLoop(s, i, st) ==
    IF i > Len(s) THEN st ELSE A2bLoop(s, i + 1, A2bStep(st, s[i]))

\* base64.b64decode(s): [exc, value].  A str with a non-ASCII character is
\* refused with ValueError before any decoding; characters outside the
\* alphabet are discarded; data left over in an unfinished quad is a
\* binascii.Error.
b64decode(s) ==
    IF \E i \in 1..Len(s) : s[i] = NonAscii
    THEN [exc |-> "ValueError", value |-> <<>>]
    ELSE LET st == A2bLoop(s, 1, A2bStart) IN
         IF ~st.done /\ st.quad_pos # 0
         THEN [exc |-> "binascii.Error", value |-> <<>>]
         ELSE [exc |-> "None", value |-> st.out]

(***************************************************************************)
(* utils.generate_signature.                                                *)
(***************************************************************************)
\* hmac.new(key, msg, digestmod=hashlib.sha256).digest()
hmac_sha256(key, msg) == [alg |-> "HMAC-SHA256", key |-> key, msg |-> msg]

NoDigest == [alg |-> "none", key |-> <<>>, msg |-> ""]

\* base64.encodestring(digest): the encoded digest and a newline.
encodestring(digest) == [b64 |-> digest, eol |-> "\n"]

\* bytes.decode().strip() of an encoded digest: the newline is removed.
decode_strip(sig) == [sig EXCEPT !.eol = ""]

NoSig == [b64 |-> NoDigest, eol |-> ""]

\* The text that generate_signature signs.
sign_message(timestamp, http_method, request_path, body) ==
    LET b == IF Truthy(body) THEN body_to_string(body) ELSE ""
    IN  ToString(timestamp) \o http_method \o request_path \o b

\* generate_signature(api_secret, timestamp, http_method, request_path, body):
\* [exc, msg, value], value the bytes returned when exc = "None".
generate_signature(api_secret, timestamp, http_method, request_path, body) ==
    LET message == sign_message(timestamp, http_method, request_path, body)
        secret  == b64decode(api_secret)
    IN  CASE secret.exc = "binascii.Error" ->
               [exc |-> "EmxApiException", msg |-> <<"b64decode failed: ", "binascii.Error">>,
                value |-> NoSig]
          [] secret.exc = "ValueError" ->
               [exc |-> "ValueError", msg |-> <<"string argument should contain only ASCII characters">>,
                value |-> NoSig]
          [] OTHER ->
               [exc |-> "None", msg |-> <<>>,
                value |-> encodestring(hmac_sha256(secret.value, message))]


(***************************************************************************)
(* State.                                                                   *)
(***************************************************************************)
VARIABLES
    api_secret,  \* self._api_secret of the client instance: a sequence of characters
    now,         \* the wall clock, in whole seconds
    headers,     \* RestApi._headers: header name -> value
    call,        \* the latest RestApi call: what it read, signed, sent and how it ended
    ws_open,     \* whether the WebSocket connection is still open
    inbox,       \* frames that arrived on the WebSocket connection and are not read yet
    ws_call,     \* the latest WebSocketApi call
    sign_in,     \* arguments of the latest direct generate_signature call
    sign_out,    \* what that call returned or raised
    callers      \* two callers sharing the RestApi instance: each one's position
                 \* in its method, its local variables and the request it sent

vars ==
    <<api_secret, now, headers, call, ws_open, inbox, ws_call, sign_in, sign_out, callers>>

rest_vars == <<headers, call>>

ws_vars == <<ws_open, inbox, ws_call>>

sign_vars == <<sign_in, sign_out>>

\* The api key the instances are constructed with (examples.py).
api_key == "your_api_key"

\* RestApi.__init__'s default uri.
uri == "http://api.testnet.emx.com"

\* utils.get_timestamp: int(round(time.time())); the clock of the model has
\* no fraction of a second.
get_timestamp == now

(***************************************************************************)
(* Secrets.  The characters are a data character, the padding character, an *)
(* ASCII character outside the base64 alphabet and a non-ASCII character.   *)
(***************************************************************************)
SecretChars == {"c", "=", "!", NonAscii}

\* Every secret of at most MaxSecretLen characters.
Secrets == UNION {[1..n -> SecretChars] : n \in 0..MaxSecretLen}

\* RFC 4648 base64: alphabet characters in groups of four, the last group
\* ending with at most two padding characters.
IsValidBase64(s) ==
    /\ Len(s) % 4 = 0
    /\ \E pad \in 0..2 :
          /\ pad <= Len(s)
          /\ \A i \in 1..Len(s) :
                IF i > Len(s) - pad THEN s[i] = "=" ELSE IsB64Char(s[i])

\* The secrets the REST and WebSocket instances are constructed with: one of
\* each way b64decode can go.
InstanceSecrets ==
    { <<"c", "c", "=", "=">>,        \* valid
      <<"c", "c", "c">>,             \* truncated: b64decode raises binascii.Error
      <<"c", "c", "!", "c", "c">>,   \* a character outside the alphabet
      <<"c", "c", "c", "c", NonAscii>> }  \* a character outside ASCII

(***************************************************************************)
(* HTTP.                                                                    *)
(***************************************************************************)
CONTENT_TYPE == "content-type"

ACCESS_KEY == "EMX-ACCESS-KEY"

ACCESS_SIG == "EMX-ACCESS-SIG"

ACCESS_TIMESTAMP == "EMX-ACCESS-TIMESTAMP"

AuthHeaderNames == {ACCESS_KEY, ACCESS_SIG, ACCESS_TIMESTAMP}

\* The dictionary RestApi.__init__ and the contract routes assign to
\* self._headers.
DefaultHeaders == [h \in {CONTENT_TYPE} |-> "application/json"]

\* No headers= argument: requests sends only the session's own headers.
NoHeaders == [h \in {} |-> ""]

\* SetAuthHeaders with a slip: a signature and a timestamp that the
\* dictionary already holds are kept.
SetAuthHeadersKeepingOld(h, signature, timestamp) ==
    [n \in DOMAIN h \cup AuthHeaderNames |->
        CASE n \in DOMAIN h        -> h[n]
          [] n = ACCESS_KEY       -> api_key
          [] n = ACCESS_SIG       -> decode_strip(signature)
          [] n = ACCESS_TIMESTAMP -> ToString(timestamp)]

\* The three assignments every authenticated method makes to self._headers.
SetAuthHeaders(h, signature, timestamp) ==
    [n \in DOMAIN h \cup AuthHeaderNames |->
        CASE n = ACCESS_KEY       -> api_key
          [] n = ACCESS_SIG       -> decode_strip(signature)
          [] n = ACCESS_TIMESTAMP -> ToString(timestamp)
          [] OTHER                -> h[n]]

\* Status codes the remote service answers with.
Statuses == {199, 200, 299, 300, 301}

Texts == {"{\"ok\":1}", "denied"}

\* What happens to a request on the wire: a response, or no response at all.
ServerReplies ==
    [kind : {"response"}, status : Statuses, text : Texts, exc : {"None"}]
    \cup { [kind |-> "failure", status |-> 0, text |-> "timed out",
             exc |-> "requests.exceptions.Timeout"],
           [kind |-> "failure", status |-> 0, text |-> "connection refused",
             exc |-> "requests.exceptions.ConnectionError"] }

NoResponse == [status |-> 0, text |-> ""]

\* requests.Session.get/post/put/patch/delete: returns the Response or
\* raises the transport's exception.
session_request(reply) ==
    IF reply.kind = "response"
    THEN [exc |-> "None", msg |-> <<>>,
          resp |-> [status |-> reply.status, text |-> reply.text]]
    ELSE [exc |-> reply.exc, msg |-> <<reply.text>>, resp |-> NoResponse]

NoValue == [t |-> "None", status |-> 0, text |-> ""]

\* What a method body did: the exception it raised ("None": it returned
\* resp), the headers dictionary it leaves, the requests it sent.
FuncRaise(exc, msg) ==
    [exc |-> exc, msg |-> msg, headers |-> headers, sent |-> <<>>, resp |-> NoResponse,
     signed |-> FALSE, sig |-> NoSig]

\* utils.handle_result's wrapper around a method body's outcome f.
handle_result(f) ==
    IF f.exc # "None"
    THEN [kind |-> "raise", exc |-> f.exc, msg |-> f.msg, value |-> NoValue]
    ELSE IF f.resp.status < 200 \/ f.resp.status > 300
    THEN [kind |-> "raise", exc |-> "EmxApiException",
          msg |-> <<"Request failed. Reason: ", f.resp.text>>, value |-> NoValue]
    ELSE [kind |-> "return", exc |-> "None", msg |-> <<>>,
          value |-> [t |-> "str", status |-> 0, text |-> f.resp.text]]

\* A method without the decorator: the Response object itself is returned.
not_wrapped(f) ==
    IF f.exc # "None"
    THEN [kind |-> "raise", exc |-> f.exc, msg |-> f.msg, value |-> NoValue]
    ELSE [kind |-> "return", exc |-> "None", msg |-> <<>>,
          value |-> [t |-> "Response", status |-> f.resp.status, text |-> f.resp.text]]

\* The body shared by the authenticated methods once the clock is read and
\* generate_signature has ended: a raise of the signer leaves the method at
\* once; otherwise the three headers are set and the request is sent.
auth_func(timestamp, signature, endpoint, verb, params, json, reply) ==
    IF signature.exc # "None"
    THEN FuncRaise(signature.exc, signature.msg)
    ELSE LET h == SetAuthHeaders(headers, signature.value, timestamp)
             t == session_request(reply)
         IN  [exc |-> t.exc, msg |-> t.msg, headers |-> h,
              sent |-> << [verb |-> verb, url |-> uri \o endpoint, headers |-> h,
                           params |-> params, json |-> json] >>,
              resp |-> t.resp, signed |-> TRUE, sig |-> signature.value]

\* The body shared by the contract routes: reset the headers, send.
public_func(endpoint, reply) ==
    LET h == DefaultHeaders
        t == session_request(reply)
    IN  [exc |-> t.exc, msg |-> t.msg, headers |-> h,
         sent |-> << [verb |-> "GET", url |-> uri \o endpoint, headers |-> h,
                      params |-> PyStr("{}"), json |-> PyNone] >>,
         resp |-> t.resp, signed |-> FALSE, sig |-> NoSig]

NoSign == [method |-> "", path |-> "", body |-> PyNone]

NoReply == [kind |-> "none", status |-> 0, text |-> "", exc |-> "None"]

\* The record of a finished call: the method, whether its route is an
\* authenticated one, the clock when it was called, the arguments it gave
\* the signer, whether the headers dictionary held another signature when
\* it was called, the requests it sent, what the wire did to them, and how
\* the call ended.
Finished(op, auth, sign, stale, f, reply, result) ==
    [op |-> op, auth |-> auth, readAt |-> now, sign |-> sign, signed |-> f.signed,
     stale |-> stale, sent |-> f.sent,
     reply |-> IF f.sent = <<>> THEN NoReply ELSE reply,
     result |-> result]

\* An authenticated method as a whole.
AuthCall(op, sign_method, endpoint, body, verb, params, json) ==
    \E timestamp \in {get_timestamp} :
    \E signature \in {generate_signature(api_secret, timestamp, sign_method, endpoint, body)} :
    \E reply \in ServerReplies :
        \E f \in {auth_func(timestamp, signature, endpoint, verb, params, json, reply)} :
            /\ headers' = f.headers
            /\ call' = Finished(op, TRUE,
                                [method |-> sign_method, path |-> endpoint, body |-> body],
                                /\ ACCESS_SIG \in DOMAIN headers
                                /\ headers[ACCESS_SIG] # decode_strip(signature.value),
                                f, reply, handle_result(f))
            /\ UNCHANGED <<api_secret, now, ws_vars, sign_vars, callers>>

(***************************************************************************)
(* The arguments the caller passes.                                         *)
(***************************************************************************)
TraderIds == {"t1"}

KeyIds == {"k1"}

OrderIds == {"o1"}

ContractCodes == {"ETHH19"}

StartTimes == {"2019-01-01"}

OrderTypes == {"market", "limit"}

\* price of create_new_order: None, the default "" of an omitted argument, or
\* a price.
Prices == {PyNone, PyStr(""), PyStr("10")}

\* order_price of modify_order: its default None, or a price.
ModifyPrices == {PyNone, PyStr("10")}

(***************************************************************************)
(* RestApi: one action per method.                                          *)
(***************************************************************************)
get_account ==
    AuthCall("get_account", "GET", "/v1/accounts", PyStr(""), "GET", PyStr(""), PyNone)

\* No signature and no headers= argument.
get_account_rank ==
    \E start_time \in StartTimes, reply \in ServerReplies :
        LET t == session_request(reply)
            f == [exc |-> t.exc, msg |-> t.msg, headers |-> headers,
                  sent |-> << [verb |-> "GET", url |-> uri \o "/v1/accounts/rank",
                               headers |-> NoHeaders,
                               params |-> PyDict(<< <<"start_time", PyStr(start_time)>> >>),
                               json |-> PyNone] >>,
                  resp |-> t.resp, signed |-> FALSE, sig |-> NoSig]
        IN  /\ call' = Finished("get_account_rank", FALSE, NoSign, FALSE, f, reply,
                                handle_result(f))
            /\ UNCHANGED <<api_secret, now, headers, ws_vars, sign_vars, callers>>

get_balances ==
    \E trader_id \in TraderIds :
        LET body == PyDict(<< <<"trader_id", PyStr(trader_id)>> >>)
        IN  AuthCall("get_balances", "GET", "/v1/accounts/" \o trader_id, body,
                     "GET", PyNone, body)

get_account_alias ==
    \E trader_id \in TraderIds :
        LET body == PyDict(<< <<"trader_id", PyStr(trader_id)>> >>)
        IN  AuthCall("get_account_alias", "GET", "/v1/accounts/" \o trader_id \o "/alias",
                     body, "GET", PyNone, body)

\* Signed as a GET, sent as a PUT.
update_account_alias ==
    \E trader_id \in TraderIds :
        LET body == PyDict(<< <<"trader_id", PyStr(trader_id)>> >>)
        IN  AuthCall("update_account_alias", "GET", "/v1/accounts/" \o trader_id \o "/alias",
                     body, "PUT", PyNone, body)

list_fills ==
    \E contract_code \in {""} :
        LET body == PyDict(<< <<"contract_code", PyStr(contract_code)>>,
                              <<"order_id", PyStr("")>>,
                              <<"before", PyStr("")>>,
                              <<"after", PyStr("")>> >>)
        IN  AuthCall("list_fills", "GET", "/v1/fills", body, "GET", PyNone, body)

list_keys ==
    AuthCall("list_keys", "GET", "/v1/keys", PyStr(""), "GET", PyStr(""), PyNone)

create_key ==
    AuthCall("create_key", "POST", "/v1/keys", PyStr(""), "POST", PyStr(""), PyNone)

delete_key ==
    \E key \in KeyIds :
        AuthCall("delete_key", "DELETE", "/v1/keys/" \o key, PyStr(""),
                 "DELETE", PyStr(""), PyNone)

list_orders ==
    \E contract_code \in ContractCodes \cup {""} :
        LET body == PyDict(<< <<"contract_code", PyStr(contract_code)>>,
                              <<"status", PyStr("")>>,
                              <<"before", PyStr("")>>,
                              <<"after", PyStr("")>> >>)
        IN  AuthCall("list_orders", "GET", "/v1/orders", body, "GET", PyNone, body)

get_contracts ==
    \E reply \in ServerReplies :
        LET f == public_func("/v1/contracts", reply)
        IN  /\ headers' = f.headers
            /\ call' = Finished("get_contracts", FALSE, NoSign, FALSE, f, reply,
                                handle_result(f))
            /\ UNCHANGED <<api_secret, now, ws_vars, sign_vars, callers>>

\* The one method without @handle_result.
get_specific_contract ==
    \E contract_code \in ContractCodes, reply \in ServerReplies :
        LET f == public_func("/v1/contracts/" \o contract_code, reply)
        IN  /\ headers' = f.headers
            /\ call' = Finished("get_specific_contract", FALSE, NoSign, FALSE, f, reply,
                                not_wrapped(f))
            /\ UNCHANGED <<api_secret, now, ws_vars, sign_vars, callers>>

create_new_order ==
    \E contract_code \in ContractCodes, order_type \in OrderTypes, price \in Prices :
        IF order_type # "market" /\ price.t = "None"
        THEN LET f == FuncRaise("Exception",
                                <<"Specify the price, since order type is not market">>)
             IN  /\ call' = Finished("create_new_order", TRUE, NoSign, FALSE, f, NoReply,
                                     handle_result(f))
                 /\ UNCHANGED <<api_secret, now, headers, ws_vars, sign_vars, callers>>
        ELSE LET body == PyDict(<< <<"client_id", PyStr("")>>,
                                   <<"contract_code", PyStr(contract_code)>>,
                                   <<"type", PyStr(order_type)>>,
                                   <<"side", PyStr("buy")>>,
                                   <<"size", PyStr("1")>>,
                                   <<"price", price>> >>)
             IN  AuthCall("create_new_order", "POST", "/v1/orders", body, "POST", PyNone, body)

\* The body holds the arguments that are not None.
modify_order ==
    \E exchange_orderid \in OrderIds, order_price \in ModifyPrices :
        LET elems == << <<"type", PyStr("limit")>>, <<"side", PyStr("buy")>>,
                        <<"size", PyStr("1")>>, <<"price", order_price>>,
                        <<"stop_price", PyNone>> >>
            IsSet(e) == e[2].t # "None"
            body == PyDict(SelectSeq(elems, IsSet))
        IN  AuthCall("modify_order", "PATCH", "/v1/orders/" \o exchange_orderid, body,
                     "PATCH", PyNone, body)

cancel_order ==
    \E exchange_orderid \in OrderIds :
        LET body == PyDict(<< <<"order_id", PyStr(exchange_orderid)>> >>)
        IN  AuthCall("cancel_order", "DELETE", "/v1/orders/" \o exchange_orderid, body,
                     "DELETE", PyNone, body)

\* body = {}: an empty dict is signed and sent as json.
cancel_all ==
    \E contract_code \in ContractCodes \cup {"None"} :
        LET endpoint == IF contract_code # "None"
                        THEN "/v1/orders?contract_code=" \o contract_code
                        ELSE "/v1/orders"
        IN  AuthCall("cancel_all", "DELETE", endpoint, PyDict(<<>>),
                     "DELETE", PyNone, PyDict(<<>>))

\* A second passes.
Tick ==
    /\ now < MaxTime
    /\ now' = now + 1
    /\ UNCHANGED <<api_secret, rest_vars, ws_vars, sign_vars, callers>>

(***************************************************************************)
(* Construction.                                                            *)
(***************************************************************************)
NoCall ==
    [op |-> "none", auth |-> FALSE, readAt |-> 0, sign |-> NoSign, signed |-> FALSE,
     stale |-> FALSE, sent |-> <<>>, reply |-> NoReply,
     result |-> [kind |-> "none", exc |-> "None", msg |-> <<>>, value |-> NoValue]]

NoWsCall ==
    [op |-> "none", channels |-> <<>>, frames |-> <<>>, recvs |-> 0,
     result |-> [kind |-> "none", exc |-> "None", msg |-> <<>>, value |-> ""]]

NoSignIn == [api_secret |-> <<>>, timestamp |-> 0, http_method |-> "", request_path |-> "",
             body |-> PyNone]

NoSignOut == [exc |-> "unset", msg |-> <<>>, value |-> NoSig]

\* The callers that share one RestApi instance.
CallerIds == {"A", "B"}

NoResult == [kind |-> "none", exc |-> "None", msg |-> <<>>, value |-> NoValue]

\* A caller that is in no method.
IdleCaller ==
    [pc |-> "idle", op |-> "none", auth |-> FALSE, method |-> "", endpoint |-> "",
     timestamp |-> 0, signature |-> NoSig, sent |-> <<>>, result |-> NoResult]

NoCallers == [t \in CallerIds |-> IdleCaller]

\* RestApi.__init__ and WebSocketApi.__init__: the credentials are stored,
\* the headers dictionary holds the content type, the connection is open.
Init ==
    /\ api_secret \in InstanceSecrets
    /\ now = 0
    /\ headers = DefaultHeaders
    /\ call = NoCall
    /\ ws_open = TRUE
    /\ inbox = <<>>
    /\ ws_call = NoWsCall
    /\ sign_in = NoSignIn
    /\ sign_out = NoSignOut
    /\ callers = NoCallers

Next ==
    \/ get_account
    \/ get_account_rank
    \/ get_balances
    \/ get_account_alias
    \/ update_account_alias
    \/ list_fills
    \/ list_keys
    \/ create_key
    \/ delete_key
    \/ list_orders
    \/ get_contracts
    \/ get_specific_contract
    \/ create_new_order
    \/ modify_order
    \/ cancel_order
    \/ cancel_all
    \/ Tick

\* One RestApi instance used by a single caller.
Spec == Init /\ [][Next]_vars

(***************************************************************************)
(* WebSocketApi.                                                            *)
(***************************************************************************)
\* Text frames the remote service pushes.
Frames == {"{\"type\":\"subscriptions\"}", "{\"type\":\"orders\"}"}

Channels == {"orders", "trading"}

\* The channels lists a caller passes: every list without repetition.
ChannelLists ==
    {<<>>} \cup {<<c>> : c \in Channels}
    \cup {<<p[1], p[2]>> : p \in {q \in Channels \X Channels : q[1] # q[2]}}

SymbolLists == {<<"ETHH19">>}

NoAuth == [key |-> "", sig |-> NoSig, timestamp |-> ""]

\* A control frame: the dict that json.dumps serialises, fields in order;
\* auth holds key, sig and timestamp when the dict has them.
ControlFrame(type, contract_codes, channels, has_auth, auth) ==
    [type |-> type, contract_codes |-> contract_codes, channels |-> channels,
     has_auth |-> has_auth, auth |-> auth]

\* self.ws.send(text): raises when the connection is closed.
ws_send(frame) ==
    IF ws_open
    THEN [exc |-> "None", msg |-> <<>>, frames |-> <<frame>>]
    ELSE [exc |-> "WebSocketConnectionClosedException",
          msg |-> <<"Connection is already closed.">>, frames |-> <<>>]

\* self.ws.recv(): the oldest waiting frame; with none waiting, the read
\* times out; on a closed connection it raises.
ws_recv ==
    IF ~ws_open
    THEN [exc |-> "WebSocketConnectionClosedException",
          msg |-> <<"Connection is already closed.">>, value |-> ""]
    ELSE IF inbox = <<>>
    THEN [exc |-> "WebSocketTimeoutException", msg |-> <<"timed out">>, value |-> ""]
    ELSE [exc |-> "None", msg |-> <<>>, value |-> Head(inbox)]

WsRaise(exc, msg) == [kind |-> "raise", exc |-> exc, msg |-> msg, value |-> ""]

WsReturn(value) == [kind |-> "return", exc |-> "None", msg |-> <<>>, value |-> value]

\* receive_result with a slip: only the timeout is caught.
receive_result_timeout_only(r) ==
    CASE r.exc = "WebSocketTimeoutException" ->
            WsRaise("EmxApiException", <<"No messages received">>)
      [] r.exc # "None" -> WsRaise(r.exc, r.msg)
      [] OTHER -> WsReturn(r.value)

\* The try/except of receive_msg around one recv().
receive_result(r) ==
    CASE r.exc = "WebSocketTimeoutException" ->
            WsRaise("EmxApiException", <<"No messages received">>)
      [] r.exc # "None" ->
            WsRaise("EmxApiException", <<"Unable to receive msgs. Reason: ">> \o r.msg)
      [] OTHER -> WsReturn(r.value)

\* The try/except of subscribe and unsubscribe around one send().
send_result(r) ==
    IF r.exc # "None"
    THEN WsRaise("EmxApiException", <<"Unable to send request. Reason: ">> \o r.msg)
    ELSE WsReturn("")

receive_msg ==
    \E r \in {ws_recv} :
        /\ inbox' = IF r.exc = "None" THEN Tail(inbox) ELSE inbox
        /\ ws_call' = [op |-> "receive_msg", channels |-> <<>>, frames |-> <<>>,
                       recvs |-> 1, result |-> receive_result(r)]
        /\ UNCHANGED <<api_secret, now, rest_vars, ws_open, sign_vars, callers>>

subscribe ==
    \E symbols \in SymbolLists, channels \in ChannelLists :
    \E timestamp \in {get_timestamp} :
    \E signature \in {generate_signature(api_secret, timestamp, "GET", "/v1/user/verify", PyNone)} :
        IF signature.exc # "None"
        THEN /\ ws_call' = [op |-> "subscribe", channels |-> channels, frames |-> <<>>,
                            recvs |-> 0, result |-> WsRaise(signature.exc, signature.msg)]
             /\ UNCHANGED <<api_secret, now, rest_vars, ws_open, inbox, sign_vars, callers>>
        ELSE \E r \in {ws_send(ControlFrame("subscribe", symbols, channels, TRUE,
                                  [key |-> api_key, sig |-> decode_strip(signature.value),
                                   timestamp |-> ToString(timestamp)]))} :
             /\ ws_call' = [op |-> "subscribe", channels |-> channels, frames |-> r.frames,
                            recvs |-> 0, result |-> send_result(r)]
             /\ UNCHANGED <<api_secret, now, rest_vars, ws_open, inbox, sign_vars, callers>>

\* The channels of the frame are the literal ["orders"].
unsubscribe ==
    \E channels \in ChannelLists :
    \E r \in {ws_send(ControlFrame("unsubscribe", <<>>, <<"orders">>, FALSE, NoAuth))} :
        /\ ws_call' = [op |-> "unsubscribe", channels |-> channels, frames |-> r.frames,
                       recvs |-> 0, result |-> send_result(r)]
        /\ UNCHANGED <<api_secret, now, rest_vars, ws_open, inbox, sign_vars, callers>>

\* WebSocketApi.close.
close ==
    /\ ws_open' = FALSE
    /\ ws_call' = [op |-> "close", channels |-> <<>>, frames |-> <<>>, recvs |-> 0,
                   result |-> WsReturn("")]
    /\ UNCHANGED <<api_secret, now, rest_vars, inbox, sign_vars, callers>>

\* The remote service pushes a frame.
Deliver ==
    /\ ws_open
    /\ Len(inbox) < MaxInbox
    /\ \E frame \in Frames : inbox' = Append(inbox, frame)
    /\ UNCHANGED <<api_secret, now, rest_vars, ws_open, ws_call, sign_vars, callers>>

\* The connection is lost.
Drop ==
    /\ ws_open
    /\ ws_open' = FALSE
    /\ UNCHANGED <<api_secret, now, rest_vars, inbox, ws_call, sign_vars, callers>>

NextWs ==
    \/ receive_msg
    \/ subscribe
    \/ unsubscribe
    \/ close
    \/ Deliver
    \/ Drop
    \/ Tick

\* One WebSocketApi instance used by a single caller.
SpecWs == Init /\ [][NextWs]_vars

(***************************************************************************)
(* Two callers on one RestApi instance, one statement at a time.  The       *)
(* methods are get_account and create_key (authenticated) and get_contracts *)
(* (public).  self._headers is read anew by every statement, so the callers *)
(* always write to, and send, the dictionary that is bound at that moment.  *)
(***************************************************************************)
\* op -> the route is authenticated, the method signed and used, the endpoint.
ConcMethods ==
    { [op |-> "get_account", auth |-> TRUE, method |-> "GET", endpoint |-> "/v1/accounts"],
      [op |-> "create_key", auth |-> TRUE, method |-> "POST", endpoint |-> "/v1/keys"],
      [op |-> "get_contracts", auth |-> FALSE, method |-> "GET", endpoint |-> "/v1/contracts"] }

\* The replies of the remote service to the two callers.
ConcReplies ==
    {r \in ServerReplies : r.kind = "response" /\ r.status \in {200, 301} /\ r.text = "denied"}

\* self._headers[name] = value
SetHeader(h, name, value) ==
    [n \in DOMAIN h \cup {name} |-> IF n = name THEN value ELSE h[n]]

\* The caller enters a method: endpoint and url are assigned.
conc_call(t) ==
    /\ callers[t].pc = "idle"
    /\ \E m \in ConcMethods :
          callers' = [callers EXCEPT ![t] =
              [IdleCaller EXCEPT !.pc = IF m.auth THEN "get_timestamp" ELSE "reset_headers",
                                 !.op = m.op, !.auth = m.auth, !.method = m.method,
                                 !.endpoint = m.endpoint]]
    /\ UNCHANGED <<api_secret, now, rest_vars, ws_vars, sign_vars>>

\* timestamp = get_timestamp()
conc_get_timestamp(t) ==
    /\ callers[t].pc = "get_timestamp"
    /\ callers' = [callers EXCEPT ![t].timestamp = get_timestamp,
                                  ![t].pc = "generate_signature"]
    /\ UNCHANGED <<api_secret, now, rest_vars, ws_vars, sign_vars>>

\* signature = generate_signature(self._api_secret, timestamp, method, endpoint, "")
conc_generate_signature(t) ==
    /\ callers[t].pc = "generate_signature"
    /\ \E signature \in {generate_signature(api_secret, callers[t].timestamp,
                                            callers[t].method, callers[t].endpoint,
                                            PyStr(""))} :
          callers' = [callers EXCEPT ![t] =
              IF signature.exc # "None"
              THEN [@ EXCEPT !.pc = "idle",
                             !.result = handle_result(FuncRaise(signature.exc, signature.msg))]
              ELSE [@ EXCEPT !.pc = "set_key", !.signature = signature.value]]
    /\ UNCHANGED <<api_secret, now, rest_vars, ws_vars, sign_vars>>

\* self._headers['EMX-ACCESS-KEY'] = self._api_key
conc_set_key(t) ==
    /\ callers[t].pc = "set_key"
    /\ headers' = SetHeader(headers, ACCESS_KEY, api_key)
    /\ callers' = [callers EXCEPT ![t].pc = "set_sig"]
    /\ UNCHANGED <<api_secret, now, call, ws_vars, sign_vars>>

\* self._headers['EMX-ACCESS-SIG'] = signature.decode().strip()
conc_set_sig(t) ==
    /\ callers[t].pc = "set_sig"
    /\ headers' = SetHeader(headers, ACCESS_SIG, decode_strip(callers[t].signature))
    /\ callers' = [callers EXCEPT ![t].pc = "set_timestamp"]
    /\ UNCHANGED <<api_secret, now, call, ws_vars, sign_vars>>

\* self._headers['EMX-ACCESS-TIMESTAMP'] = str(timestamp)
conc_set_timestamp(t) ==
    /\ callers[t].pc = "set_timestamp"
    /\ headers' = SetHeader(headers, ACCESS_TIMESTAMP, ToString(callers[t].timestamp))
    /\ callers' = [callers EXCEPT ![t].pc = "send"]
    /\ UNCHANGED <<api_secret, now, call, ws_vars, sign_vars>>

\* self._headers = {'content-type': 'application/json'}
conc_reset_headers(t) ==
    /\ callers[t].pc = "reset_headers"
    /\ headers' = DefaultHeaders
    /\ callers' = [callers EXCEPT ![t].pc = "send"]
    /\ UNCHANGED <<api_secret, now, call, ws_vars, sign_vars>>

\* return self.session.<verb>(url=url, ..., headers=self._headers), and the
\* decorator's classification of the response.
conc_send(t) ==
    /\ callers[t].pc = "send"
    /\ \E reply \in ConcReplies :
       \E r \in {session_request(reply)} :
          callers' = [callers EXCEPT ![t] =
              [@ EXCEPT !.pc = "idle",
                        !.sent = << [verb |-> callers[t].method,
                                     url |-> uri \o callers[t].endpoint,
                                     headers |-> headers,
                                     params |-> IF callers[t].auth THEN PyStr("")
                                                ELSE PyStr("{}"),
                                     json |-> PyNone] >>,
                        !.result = handle_result(
                            [exc |-> r.exc, msg |-> r.msg, resp |-> r.resp])]]
    /\ UNCHANGED <<api_secret, now, rest_vars, ws_vars, sign_vars>>

InitConc ==
    /\ Init
    /\ api_secret \in {s \in InstanceSecrets : b64decode(s).exc # "ValueError"}

NextConc ==
    \/ \E t \in CallerIds :
          \/ conc_call(t)
          \/ conc_get_timestamp(t)
          \/ conc_generate_signature(t)
          \/ conc_set_key(t)
          \/ conc_set_sig(t)
          \/ conc_set_timestamp(t)
          \/ conc_reset_headers(t)
          \/ conc_send(t)
    \/ Tick

\* One RestApi instance used by two callers whose statements interleave.
SpecConc == InitConc /\ [][NextConc]_vars

(***************************************************************************)
(* generate_signature on its own, over every input of the bounds.           *)
(***************************************************************************)
Methods == {"GET", "DELETE"}

Paths == {"/v1/accounts", "/v1/orders"}

Bodies == {PyNone, PyStr(""), PyDict(<<>>), PyDict(<< <<"order_id", PyStr("o1")>> >>)}

SignInputs ==
    [api_secret : Secrets, timestamp : 0..MaxTime, http_method : Methods,
     request_path : Paths, body : Bodies]

InitSign ==
    /\ api_secret = <<>>
    /\ now = 0
    /\ headers = DefaultHeaders
    /\ call = NoCall
    /\ ws_open = TRUE
    /\ inbox = <<>>
    /\ ws_call = NoWsCall
    /\ sign_in \in SignInputs
    /\ sign_out = NoSignOut
    /\ callers = NoCallers

\* The call generate_signature(**sign_in).
Sign ==
    /\ sign_out.exc = "unset"
    /\ sign_out' = generate_signature(sign_in.api_secret, sign_in.timestamp,
                                      sign_in.http_method, sign_in.request_path,
                                      sign_in.body)
    /\ UNCHANGED <<api_secret, now, rest_vars, ws_vars, sign_in, callers>>

NextSign == Sign

SpecSign == InitSign /\ [][NextSign]_vars

(***************************************************************************)
(* Properties.                                                              *)
(***************************************************************************)
Range(seq) == {seq[i] : i \in 1..Len(seq)}

\* A status of [200,300).
IsSuccess(status) == 200 <= status /\ status < 300

\* The call returned the text of the response it received.
ReturnsText ==
    /\ call.result.kind = "return"
    /\ call.result.value.t = "str"
    /\ call.result.value.text = call.reply.text

\* The call raised EmxApiException with the text of the wire's reply in its
\* message.
RaisesWithText ==
    /\ call.result.kind = "raise"
    /\ call.result.exc = "EmxApiException"
    /\ call.reply.text \in Range(call.result.msg)

\* The methods decorated with @handle_result.
WrappedOps ==
    {"get_account", "get_account_rank", "get_balances", "get_account_alias",
     "update_account_alias", "list_fills", "list_keys", "create_key", "delete_key",
     "list_orders", "get_contracts", "create_new_order", "modify_order",
     "cancel_order", "cancel_all"}

\* C1: a decorated REST operation that received a response returns its text
\* when the status is in [200,300) and raises EmxApiException holding the
\* text for every other status, 300 included.
C1_StatusClassified ==
    (call.op \in WrappedOps /\ call.reply.kind = "response") =>
        IF IsSuccess(call.reply.status) THEN ReturnsText ELSE RaisesWithText

\* C2: an operation that reaches the signer with a secret that is not valid
\* base64 ends by raising EmxApiException and sends nothing.
C2_BadSecretRaises ==
    (call.sign # NoSign /\ ~IsValidBase64(api_secret)) =>
        /\ call.result.kind = "raise"
        /\ call.result.exc = "EmxApiException"
        /\ call.sent = <<>>

\* The signature generate_signature returns for sign_in with another body.
SignatureWithBody(body) ==
    generate_signature(sign_in.api_secret, sign_in.timestamp, sign_in.http_method,
                       sign_in.request_path, body).value

\* C3: the signature of the empty JSON object body {} is the signature of the
\* text "{}", and differs from the signature of the same request with an
\* empty or absent body.
C3_EmptyObjectDiffers ==
    (sign_out.exc = "None" /\ sign_in.body = PyDict(<<>>)) =>
        /\ sign_out.value # SignatureWithBody(PyStr(""))
        /\ sign_out.value # SignatureWithBody(PyNone)
        /\ sign_out.value.b64.msg =
              ToString(sign_in.timestamp) \o sign_in.http_method
              \o sign_in.request_path \o "{}"

\* C4: a REST operation whose request failed on the wire raises
\* EmxApiException holding the reason, and no other exception type.
C4_TransportFailureWrapped ==
    (call.reply.kind = "failure") => RaisesWithText

\* C5: every authenticated request that is sent carries the signature
\* computed from the clock value read in its own call and that value as its
\* timestamp, whatever an earlier call left in the headers dictionary.
C5_FreshSignature ==
    \A i \in 1..Len(call.sent) :
        call.auth =>
            LET sent_headers == call.sent[i].headers
                fresh == generate_signature(api_secret, call.readAt, call.sign.method,
                                            call.sign.path, call.sign.body)
            IN  /\ {ACCESS_SIG, ACCESS_TIMESTAMP} \subseteq DOMAIN sent_headers
                /\ fresh.exc = "None"
                /\ sent_headers[ACCESS_SIG] = decode_strip(fresh.value)
                /\ sent_headers[ACCESS_TIMESTAMP] = ToString(call.readAt)

\* An authenticated request was sent by a call that found the signature of
\* an earlier call in the headers dictionary, at a later second.
C5_Witness ==
    /\ call.auth
    /\ call.sent # <<>>
    /\ call.stale
    /\ call.readAt > 0

\* C6, for get_specific_contract, the operation the claim singles out: on a
\* response it returns the text when the status is a success and raises
\* EmxApiException otherwise; the Response object is never what it returns.
C6_EveryOperationClassifies ==
    (call.op = "get_specific_contract" /\ call.reply.kind = "response") =>
        IF IsSuccess(call.reply.status) THEN ReturnsText ELSE RaisesWithText

\* C7: a request to an authenticated route is sent with exactly the content
\* type and the three access headers; a request to a public route is sent
\* with exactly the content type.
C7_HeaderSets ==
    \A i \in 1..Len(call.sent) :
        DOMAIN call.sent[i].headers =
            IF call.auth THEN {CONTENT_TYPE} \cup AuthHeaderNames ELSE {CONTENT_TYPE}

\* C8: the frame unsubscribe sends is {type: "unsubscribe", contract_codes:
\* [], channels: the caller's list}.
C8_UnsubscribeChannels ==
    (ws_call.op = "unsubscribe") =>
        \A i \in 1..Len(ws_call.frames) :
            /\ ws_call.frames[i].type = "unsubscribe"
            /\ ws_call.frames[i].contract_codes = <<>>
            /\ ws_call.frames[i].channels = ws_call.channels

\* C9: a receive_msg step reads once and ends in one of three ways: with a
\* frame waiting on an open connection it returns that frame and takes it
\* off the connection; with none waiting it raises EmxApiException "No
\* messages received"; on a closed connection it raises EmxApiException
\* holding the reason.  It sends nothing and leaves the connection as it
\* was, open or closed.
C9_ReceiveOutcomes ==
    [][receive_msg =>
        /\ ws_call'.op = "receive_msg"
        /\ ws_call'.recvs = 1
        /\ ws_call'.frames = <<>>
        /\ ws_open' = ws_open
        /\ ws_call'.result.exc \in {"None", "EmxApiException"}
        /\ IF ws_open /\ inbox # <<>>
           THEN /\ ws_call'.result = WsReturn(Head(inbox))
                /\ inbox' = Tail(inbox)
           ELSE /\ inbox' = inbox
                /\ ws_call'.result.kind = "raise"
                /\ ws_call'.result.exc = "EmxApiException"
                /\ IF ws_open
                   THEN ws_call'.result.msg = <<"No messages received">>
                   ELSE /\ Len(ws_call'.result.msg) = 2
                        /\ ws_call'.result.msg[2] = "Connection is already closed."
    ]_vars

\* receive_msg was called on a connection that had been lost with a frame
\* still unread, and raised.
C9_Witness ==
    /\ ws_call.op = "receive_msg"
    /\ ~ws_open
    /\ inbox # <<>>
    /\ ws_call.result.kind = "raise"

\* C10: the digest generate_signature encodes is the HMAC-SHA256, keyed with
\* the decoded secret, of str(timestamp) + method + path + body_string,
\* where body_string is empty for an absent body and the JSON text otherwise.
C10_SignedMessage ==
    (sign_out.exc = "None") =>
        LET absent == sign_in.body = PyNone \/ sign_in.body = PyStr("")
            body_string == IF absent THEN "" ELSE body_to_string(sign_in.body)
        IN  sign_out.value.b64 =
                hmac_sha256(b64decode(sign_in.api_secret).value,
                            ToString(sign_in.timestamp) \o sign_in.http_method
                            \o sign_in.request_path \o body_string)

\* The request of the call was answered with a failure: no response at all,
\* or a response whose status is not in [200,300).
AttemptFailed ==
    /\ call.sent # <<>>
    /\ \/ call.reply.kind = "failure"
       \/ call.reply.kind = "response" /\ ~IsSuccess(call.reply.status)

\* C11: a REST operation sends at most one request, and when that request
\* fails (a status that is no success, or no response) the call ends by
\* raising: the failure is what the caller gets.
C11_OneAttemptSurfaced ==
    /\ Len(call.sent) <= 1
    /\ AttemptFailed => call.result.kind = "raise"

\* C12: the method and the path an authenticated operation signs are the
\* verb and the path of the request it sends.
C12_SignedAsSent ==
    \A i \in 1..Len(call.sent) :
        call.auth =>
            /\ call.sign.method = call.sent[i].verb
            /\ uri \o call.sign.path = call.sent[i].url

\* The value a create_new_order call put in its body under a key.
OrderField(key) ==
    LET items == call.sign.body.items
    IN  items[CHOOSE i \in 1..Len(items) : items[i][1] = key][2]

\* C14: create_new_order with an order type other than "market" and no price
\* (None, or the argument omitted) raises before it signs: a call that
\* reached the signer was a market order or was given a price.
C14_PriceRequired ==
    (call.op = "create_new_order" /\ call.sign # NoSign) =>
        \/ OrderField("type") = PyStr("market")
        \/ OrderField("price") \notin {PyNone, PyStr("")}

\* C13: with two callers on one instance, every authenticated request that
\* is sent carries the three access headers as its own call wrote them: the
\* signature its call computed and the timestamp its call read.
C13_OwnHeaders ==
    \A t \in CallerIds :
        \A i \in 1..Len(callers[t].sent) :
            callers[t].auth =>
                LET h == callers[t].sent[i].headers
                IN  /\ AuthHeaderNames \subseteq DOMAIN h
                    /\ h[ACCESS_KEY] = api_key
                    /\ h[ACCESS_SIG] = decode_strip(callers[t].signature)
                    /\ h[ACCESS_TIMESTAMP] = ToString(callers[t].timestamp)

=============================================================================
